---- MODULE Spec2Model ----
(***************************************************************************)
(* The transaction fetcher of reth's network crate                         *)
(* (crates/net/network/src/transactions/fetcher.rs) as a state machine.    *)
(*                                                                         *)
(* The five tables of TransactionFetcher are the state.  Every pub(super)  *)
(* method is an operator over a record `self` holding the five tables,     *)
(* translated statement by statement, and an action applies one method.    *)
(* The driver that owns the fetcher (transactions/mod.rs, not part of the  *)
(* sources at hand) is modelled from the specification: it runs the        *)
(* pipeline intake -> packaging -> re-buffering of the surplus ->          *)
(* augmentation -> dispatch -> re-buffering of the surplus for one         *)
(* announcement at a time, and only between two pipelines does it poll the *)
(* event stream or hand over a broadcast.                                  *)
(*                                                                         *)
(* Sizes: the program's limits (256 hashes per request, 25600 buffered     *)
(* hashes, 10000 concurrent requests, a byte limit of megabytes) are       *)
(* scaled down to values a model checker can exhaust; each scaled limit    *)
(* keeps its name and its comparisons are the source's.  The per-peer cap, *)
(* the retry bound and the fallback margin keep their values.              *)
(***************************************************************************)
EXTENDS Integers, Sequences, FiniteSets, Bags, TLC

(* ------------------------------ bounds -------------------------------- *)

\* Number of distinct transaction hashes in the universe.
NumHashes == 3

\* Number of peers.
NumPeers == 2

\* Longest announcement handed to intake.
MaxAnnounce == 3

\* Number of inputs (announcements, requests assembled from the buffer,
\* broadcasts) the driver handles in one run.
MaxOps == 3

Hashes == 1 .. NumHashes

Peers == 1 .. NumPeers

\* Option::None for a PeerId.
None == 0

(* ------------------------ program constants --------------------------- *)

MAX_CONCURRENT_TX_REQUESTS_PER_PEER == 1

MARGINAL_FALLBACK_PEERS_PER_TX == 1

MAX_REQUEST_RETRIES_PER_TX_HASH == 2

MAX_ALTERNATIVE_PEERS_PER_TX == MAX_REQUEST_RETRIES_PER_TX_HASH + MARGINAL_FALLBACK_PEERS_PER_TX

\* 10000 in the source; scaled.
MAX_CONCURRENT_TX_REQUESTS == 2

\* 256 in the source; scaled.
GET_POOLED_TRANSACTION_SOFT_LIMIT_NUM_HASHES == 2

\* 100 * GET_POOLED_TRANSACTION_SOFT_LIMIT_NUM_HASHES in the source; scaled, and
\* smaller than the number of hashes so that the buffer can overflow.
MAX_CAPACITY_BUFFERED_HASHES == 2

\* Defined outside fetcher.rs (super::); scaled, and large enough for the
\* sizes LIMIT - 4, LIMIT, 2, 3, 2, 1 of the packaging test.
SOFT_LIMIT_BYTE_SIZE_POOLED_TRANSACTIONS_RESPONSE_MESSAGE == 5

\* The size an eth68 announcement declares for a hash: the size of the
\* transaction, the same whoever announces it.
SizeOf(h) == IF h = 1 THEN 2 ELSE 1

Versions == {"eth66", "eth68"}

VARIABLES
    unknown_hashes,     \* TxHash -> [retries, peers]; DOMAIN = tracked hashes
    eth68_meta,         \* TxHash -> declared size; DOMAIN = eth68 hashes
    buffered_hashes,    \* LruCache<TxHash>: sequence, least recently used first
    active_peers,       \* PeerId -> inflight count; DOMAIN = active peers
    inflight_requests,  \* bag of [peer_id, requested_hashes]
    pc,                 \* where the driver stands in its pipeline
    cur,                \* the driver's locals: peer, version, hashes, surplus
    event,              \* what the last poll of the event stream yielded
    ops,                \* inputs handled so far
    hist                \* the steps taken so far, while they follow a scenario

vars == <<unknown_hashes, eth68_meta, buffered_hashes, active_peers,
          inflight_requests, pc, cur, event, ops, hist>>

(* ----------------------------- sequences ------------------------------ *)

Range(s) == {s[i] : i \in 1 .. Len(s)}

Contains(s, x) == \E i \in 1 .. Len(s) : s[i] = x

\* Vec::retain / LinkedHashSet::remove on the sequence form.
Without(s, x) == SelectSeq(s, LAMBDA y : y # x)

\* All sequences of distinct elements of S of length at most n.
DistinctSeqs(S, n) ==
    {s \in UNION {[1 .. k -> S] : k \in 0 .. n} :
        \A i, j \in 1 .. Len(s) : i # j => s[i] # s[j]}

\* A map with key k removed / bound to v.
MapRemove(m, k) == [x \in DOMAIN m \ {k} |-> m[x]]

MapPut(m, k, v) == [x \in DOMAIN m \cup {k} |-> IF x = k THEN v ELSE m[x]]

EmptyMap == [x \in {} |-> 0]

(* --------------------- the caches (cache.rs) -------------------------- *)

\* LruCache::insert_and_get_evicted: a new entry goes to the most recently
\* used end and, when the cache then exceeds its limit, the least recently
\* used entry is evicted and returned; an entry already present is refreshed.
insert_and_get_evicted(cache, limit, entry) ==
    IF Contains(cache, entry)
    THEN [cache |-> Append(Without(cache, entry), entry), inserted |-> FALSE,
          evicted |-> <<>>]
    ELSE LET grown == Append(cache, entry)
         IN  IF Len(grown) > limit
             THEN [cache |-> Tail(grown), inserted |-> TRUE,
                   evicted |-> <<Head(grown)>>]
             ELSE [cache |-> grown, inserted |-> TRUE, evicted |-> <<>>]

\* LruCache::insert.
lru_insert(cache, limit, entry) == insert_and_get_evicted(cache, limit, entry).cache

(* ------------------------ the fetcher's tables ------------------------ *)

\* `self`: the tables of the fetcher as one record.
Self ==
    [unknown_hashes |-> unknown_hashes, eth68_meta |-> eth68_meta,
     buffered_hashes |-> buffered_hashes, active_peers |-> active_peers,
     inflight_requests |-> inflight_requests]

\* The tables after the step are those of `self`.
Becomes(self) ==
    /\ unknown_hashes' = self.unknown_hashes
    /\ eth68_meta' = self.eth68_meta
    /\ buffered_hashes' = self.buffered_hashes
    /\ active_peers' = self.active_peers
    /\ inflight_requests' = self.inflight_requests

\* TransactionFetcher::default.
Default ==
    [unknown_hashes |-> EmptyMap, eth68_meta |-> EmptyMap,
     buffered_hashes |-> <<>>, active_peers |-> EmptyMap,
     inflight_requests |-> EmptyBag]

\* Mutant of remove_from_unknown_hashes: the removal from buffered_hashes is
\* forgotten.
remove_from_unknown_hashes_keeps_buffer(self, hashes) ==
    [self EXCEPT
        !.unknown_hashes = [h \in DOMAIN self.unknown_hashes \ hashes |->
                                self.unknown_hashes[h]],
        !.eth68_meta = [h \in DOMAIN self.eth68_meta \ hashes |->
                            self.eth68_meta[h]]]

\* Mutant of remove_from_unknown_hashes: the removal from eth68_meta is
\* forgotten.
remove_from_unknown_hashes_keeps_meta(self, hashes) ==
    [self EXCEPT
        !.unknown_hashes = [h \in DOMAIN self.unknown_hashes \ hashes |->
                                self.unknown_hashes[h]],
        !.buffered_hashes = SelectSeq(self.buffered_hashes,
                                      LAMBDA h : h \notin hashes)]

\* remove_from_unknown_hashes: each hash of the set leaves the three hash
\* tables.
remove_from_unknown_hashes(self, hashes) ==
    [self EXCEPT
        !.unknown_hashes = [h \in DOMAIN self.unknown_hashes \ hashes |->
                                self.unknown_hashes[h]],
        !.eth68_meta = [h \in DOMAIN self.eth68_meta \ hashes |->
                            self.eth68_meta[h]],
        !.buffered_hashes = SelectSeq(self.buffered_hashes,
                                      LAMBDA h : h \notin hashes)]

\* decrement_inflight_request_count_for: the entry is removed when the count
\* is at most the per-peer cap, and decremented otherwise.
decrement_inflight_request_count_for(self, peer_id) ==
    IF peer_id \in DOMAIN self.active_peers
    THEN IF self.active_peers[peer_id] <= MAX_CONCURRENT_TX_REQUESTS_PER_PEER
         THEN [self EXCEPT !.active_peers = MapRemove(self.active_peers, peer_id)]
         ELSE [self EXCEPT !.active_peers[peer_id] = @ - 1]
    ELSE self

\* is_idle.
is_idle(self, peer_id) ==
    IF peer_id \notin DOMAIN self.active_peers THEN TRUE
    ELSE self.active_peers[peer_id] < MAX_CONCURRENT_TX_REQUESTS_PER_PEER

\* Mutant of get_idle_peer_for: the first idle peer is returned whether its
\* session is active or not.
get_idle_peer_for_ignores_session(self, hash, ended_sessions_buf, active) ==
    IF hash \notin DOMAIN self.unknown_hashes
    THEN [peer |-> None, ended_sessions_buf |-> ended_sessions_buf]
    ELSE LET peers == self.unknown_hashes[hash].peers
             idle == {i \in 1 .. Len(peers) : is_idle(self, peers[i])}
         IN  IF idle = {}
             THEN [peer |-> None, ended_sessions_buf |-> ended_sessions_buf]
             ELSE [peer |-> peers[CHOOSE i \in idle : \A j \in idle : i <= j],
                   ended_sessions_buf |-> ended_sessions_buf]

\* The loop of get_idle_peer_for over the fallback peers `peers` from index i
\* on; `active` is the set of peers for which is_session_active holds.
RECURSIVE get_idle_peer_loop(_, _, _, _, _)
get_idle_peer_loop(self, peers, i, ended_sessions_buf, active) ==
    IF i > Len(peers)
    THEN [peer |-> None, ended_sessions_buf |-> ended_sessions_buf]
    ELSE IF is_idle(self, peers[i])
    THEN IF peers[i] \in active
         THEN [peer |-> peers[i], ended_sessions_buf |-> ended_sessions_buf]
         ELSE get_idle_peer_loop(self, peers, i + 1,
                                 Append(ended_sessions_buf, peers[i]), active)
    ELSE get_idle_peer_loop(self, peers, i + 1, ended_sessions_buf, active)

\* get_idle_peer_for: the peer found (None for Option::None) and the buffer
\* of ended sessions after the call.
get_idle_peer_for(self, hash, ended_sessions_buf, active) ==
    IF hash \notin DOMAIN self.unknown_hashes
    THEN [peer |-> None, ended_sessions_buf |-> ended_sessions_buf]
    ELSE get_idle_peer_loop(self, self.unknown_hashes[hash].peers, 1,
                            ended_sessions_buf, active)

(* ----------------------------- packaging ------------------------------ *)

\* Mutant of split_off: the part cut off is lost.
split_off_loses_tail(hashes, at) ==
    [kept |-> SubSeq(hashes, 1, at), tail |-> <<>>]

\* Vec::split_off(at): the vector keeps [0, at), the result is [at, len).
split_off(hashes, at) ==
    [kept |-> SubSeq(hashes, 1, at), tail |-> SubSeq(hashes, at + 1, Len(hashes))]

\* Mutant of pack_hashes_eth66: a list of exactly the limit is cut too.
pack_hashes_eth66_cuts_at_limit(hashes) ==
    IF Len(hashes) < GET_POOLED_TRANSACTION_SOFT_LIMIT_NUM_HASHES
    THEN [hashes |-> hashes, surplus |-> <<>>]
    ELSE LET cut == split_off(hashes, GET_POOLED_TRANSACTION_SOFT_LIMIT_NUM_HASHES - 1)
         IN  [hashes |-> cut.kept, surplus |-> cut.tail]

\* pack_hashes_eth66.
pack_hashes_eth66(hashes) ==
    IF Len(hashes) <= GET_POOLED_TRANSACTION_SOFT_LIMIT_NUM_HASHES
    THEN [hashes |-> hashes, surplus |-> <<>>]
    ELSE LET cut == split_off(hashes, GET_POOLED_TRANSACTION_SOFT_LIMIT_NUM_HASHES - 1)
         IN  [hashes |-> cut.kept, surplus |-> cut.tail]

\* Mutant of include_eth68_hash: the size accumulated so far is compared with
\* the limit, not the size the hash would bring it to.
include_eth68_hash_checks_before(self, acc_size_response, hash) ==
    IF hash \in DOMAIN self.eth68_meta
    THEN IF acc_size_response <= SOFT_LIMIT_BYTE_SIZE_POOLED_TRANSACTIONS_RESPONSE_MESSAGE
         THEN [included |-> TRUE, acc |-> acc_size_response + self.eth68_meta[hash]]
         ELSE [included |-> FALSE, acc |-> acc_size_response]
    ELSE [included |-> FALSE, acc |-> acc_size_response]

\* include_eth68_hash: whether the hash fits, and the accumulated size after.
include_eth68_hash(self, acc_size_response, hash) ==
    IF hash \in DOMAIN self.eth68_meta
    THEN LET next_acc_size == acc_size_response + self.eth68_meta[hash]
         IN  IF next_acc_size <= SOFT_LIMIT_BYTE_SIZE_POOLED_TRANSACTIONS_RESPONSE_MESSAGE
             THEN [included |-> TRUE, acc |-> next_acc_size]
             ELSE [included |-> FALSE, acc |-> acc_size_response]
    ELSE [included |-> FALSE, acc |-> acc_size_response]

\* The retain loop of pack_hashes_eth68 from index i on.
RECURSIVE pack_eth68_retain(_, _, _, _, _, _)
pack_eth68_retain(self, hashes, i, acc, kept, surplus) ==
    IF i > Len(hashes) THEN [hashes |-> kept, surplus |-> surplus]
    ELSE LET r == include_eth68_hash(self, acc, hashes[i])
         IN  IF r.included
             THEN pack_eth68_retain(self, hashes, i + 1, r.acc,
                                    Append(kept, hashes[i]), surplus)
             ELSE pack_eth68_retain(self, hashes, i + 1, r.acc, kept,
                                    Append(surplus, hashes[i]))

\* Mutant of pack_hashes_eth68: no special case for a first hash of at least
\* the limit.
pack_hashes_eth68_no_oversize(self, hashes) ==
    pack_eth68_retain(self, hashes, 1, 0, <<>>, <<>>)

\* pack_hashes_eth68.
pack_hashes_eth68(self, hashes) ==
    IF /\ Len(hashes) > 0
       /\ hashes[1] \in DOMAIN self.eth68_meta
       /\ self.eth68_meta[hashes[1]] >=
              SOFT_LIMIT_BYTE_SIZE_POOLED_TRANSACTIONS_RESPONSE_MESSAGE
    THEN LET cut == split_off(hashes, 1)
         IN  [hashes |-> cut.kept, surplus |-> cut.tail]
    ELSE pack_eth68_retain(self, hashes, 1, 0, <<>>, <<>>)

\* pack_hashes.
pack_hashes(self, hashes, version) ==
    IF hashes = <<>> THEN [hashes |-> hashes, surplus |-> <<>>]
    ELSE IF version = "eth68" THEN pack_hashes_eth68(self, hashes)
    ELSE pack_hashes_eth66(hashes)

(* ----------------------------- buffering ------------------------------ *)

\* The loop of buffer_hashes from index i on; `evicted` is
\* max_retried_and_evicted_hashes.  A hash missing from unknown_hashes makes
\* the method return at once, before the final removal.
RECURSIVE buffer_hashes_loop(_, _, _, _, _)
buffer_hashes_loop(self, hashes, i, fallback_peer, evicted) ==
    IF i > Len(hashes) THEN remove_from_unknown_hashes(self, Range(evicted))
    ELSE
    LET hash == hashes[i] IN
    IF hash \notin DOMAIN self.unknown_hashes THEN self
    ELSE
    LET entry == self.unknown_hashes[hash]
        buffer(s) ==
            LET r == insert_and_get_evicted(s.buffered_hashes,
                                            MAX_CAPACITY_BUFFERED_HASHES, hash)
            IN  buffer_hashes_loop([s EXCEPT !.buffered_hashes = r.cache],
                                   hashes, i + 1, fallback_peer,
                                   evicted \o r.evicted)
    IN  IF fallback_peer # None
        THEN buffer([self EXCEPT !.unknown_hashes[hash].peers =
                        lru_insert(@, MAX_ALTERNATIVE_PEERS_PER_TX, fallback_peer)])
        ELSE IF entry.retries >= MAX_REQUEST_RETRIES_PER_TX_HASH
             THEN buffer_hashes_loop(self, hashes, i + 1, fallback_peer,
                                     Append(evicted, hash))
             ELSE buffer([self EXCEPT !.unknown_hashes[hash].retries = @ + 1])

\* Mutant of buffer_hashes: the retry bound is compared with > instead of >=.
RECURSIVE buffer_hashes_loop_late_drop(_, _, _, _, _)
buffer_hashes_loop_late_drop(self, hashes, i, fallback_peer, evicted) ==
    IF i > Len(hashes) THEN remove_from_unknown_hashes(self, Range(evicted))
    ELSE
    LET hash == hashes[i] IN
    IF hash \notin DOMAIN self.unknown_hashes THEN self
    ELSE
    LET entry == self.unknown_hashes[hash]
        buffer(s) ==
            LET r == insert_and_get_evicted(s.buffered_hashes,
                                            MAX_CAPACITY_BUFFERED_HASHES, hash)
            IN  buffer_hashes_loop_late_drop(
                    [s EXCEPT !.buffered_hashes = r.cache],
                    hashes, i + 1, fallback_peer, evicted \o r.evicted)
    IN  IF fallback_peer # None
        THEN buffer([self EXCEPT !.unknown_hashes[hash].peers =
                        lru_insert(@, MAX_ALTERNATIVE_PEERS_PER_TX, fallback_peer)])
        ELSE IF entry.retries > MAX_REQUEST_RETRIES_PER_TX_HASH
             THEN buffer_hashes_loop_late_drop(self, hashes, i + 1, fallback_peer,
                                               Append(evicted, hash))
             ELSE buffer([self EXCEPT !.unknown_hashes[hash].retries = @ + 1])

buffer_hashes_late_drop(self, hashes, fallback_peer) ==
    buffer_hashes_loop_late_drop(self, hashes, 1, fallback_peer, <<>>)

\* buffer_hashes.
buffer_hashes(self, hashes, fallback_peer) ==
    buffer_hashes_loop(self, hashes, 1, fallback_peer, <<>>)

\* Mutant of buffer_hashes_for_retry: the retain keeps the hashes that are no
\* longer tracked instead of those that are.
buffer_hashes_for_retry_inverted(self, hashes) ==
    buffer_hashes(self,
                  SelectSeq(hashes, LAMBDA h : h \notin DOMAIN self.unknown_hashes),
                  None)

\* Mutant of buffer_hashes_for_retry: hashes no longer tracked are tracked
\* anew instead of being discarded.
buffer_hashes_for_retry_retracks(self, hashes) ==
    buffer_hashes(
        [self EXCEPT !.unknown_hashes =
            [h \in DOMAIN self.unknown_hashes \cup Range(hashes) |->
                IF h \in DOMAIN self.unknown_hashes THEN self.unknown_hashes[h]
                ELSE [retries |-> 0, peers |-> <<>>]]],
        hashes, None)

\* buffer_hashes_for_retry: hashes no longer tracked are discarded first.
buffer_hashes_for_retry(self, hashes) ==
    buffer_hashes(self,
                  SelectSeq(hashes, LAMBDA h : h \in DOMAIN self.unknown_hashes),
                  None)

\* Mutant of on_received_full_transactions_broadcast: the size metadata of the
\* hashes is left behind.
on_received_full_transactions_broadcast_keeps_meta(self, hashes) ==
    [remove_from_unknown_hashes(self, hashes) EXCEPT !.eth68_meta = self.eth68_meta]

\* on_received_full_transactions_broadcast.
on_received_full_transactions_broadcast(self, hashes) ==
    remove_from_unknown_hashes(self, hashes)

(* ------------------------------- intake ------------------------------- *)

\* The closure of retain_by_hash in filter_unseen_and_pending_hashes, from
\* index i on; `active` is the set of peers for which is_session_active holds.
\* A tracked hash that is buffered leaves the buffer and is retained; a
\* tracked hash that is not buffered has the peers collected in
\* ended_sessions removed from its fallback peers and is dropped; a hash not
\* tracked gets a fresh entry and is retained.
RECURSIVE filter_retain(_, _, _, _, _, _)
filter_retain(self, announced, i, peer_id, active, kept) ==
    IF i > Len(announced) THEN [self |-> self, hashes |-> kept]
    ELSE
    LET hash == announced[i] IN
    IF hash \in DOMAIN self.unknown_hashes
    THEN IF Contains(self.buffered_hashes, hash)
         THEN filter_retain(
                  [self EXCEPT !.buffered_hashes = Without(@, hash)],
                  announced, i + 1, peer_id, active, Append(kept, hash))
         ELSE LET backups == self.unknown_hashes[hash].peers
                  ended_sessions == SelectSeq(backups, LAMBDA p : p \in active)
              IN  filter_retain(
                      [self EXCEPT !.unknown_hashes[hash].peers =
                          SelectSeq(backups,
                                    LAMBDA p : p \notin Range(ended_sessions))],
                      announced, i + 1, peer_id, active, kept)
    ELSE filter_retain(
             [self EXCEPT !.unknown_hashes =
                 MapPut(@, hash, [retries |-> 0, peers |-> <<>>])],
             announced, i + 1, peer_id, active, Append(kept, hash))

\* Mutant of filter_unseen_and_pending_hashes: a buffered hash is retained
\* without being taken out of the buffer.
RECURSIVE filter_retain_keeps_buffered(_, _, _, _, _, _)
filter_retain_keeps_buffered(self, announced, i, peer_id, active, kept) ==
    IF i > Len(announced) THEN [self |-> self, hashes |-> kept]
    ELSE
    LET hash == announced[i] IN
    IF hash \in DOMAIN self.unknown_hashes
    THEN IF Contains(self.buffered_hashes, hash)
         THEN filter_retain_keeps_buffered(self, announced, i + 1, peer_id,
                                           active, Append(kept, hash))
         ELSE LET backups == self.unknown_hashes[hash].peers
                  ended_sessions == SelectSeq(backups, LAMBDA p : p \in active)
              IN  filter_retain_keeps_buffered(
                      [self EXCEPT !.unknown_hashes[hash].peers =
                          SelectSeq(backups,
                                    LAMBDA p : p \notin Range(ended_sessions))],
                      announced, i + 1, peer_id, active, kept)
    ELSE filter_retain_keeps_buffered(
             [self EXCEPT !.unknown_hashes =
                 MapPut(@, hash, [retries |-> 0, peers |-> <<>>])],
             announced, i + 1, peer_id, active, Append(kept, hash))

filter_unseen_and_pending_hashes_keeps_buffered(self, announced, peer_id, active) ==
    filter_retain_keeps_buffered(self, announced, 1, peer_id, active, <<>>)

\* filter_unseen_and_pending_hashes.
filter_unseen_and_pending_hashes(self, announced, peer_id, active) ==
    filter_retain(self, announced, 1, peer_id, active, <<>>)

\* The driver records the declared size of every eth68 hash it is about to
\* request.
record_eth68_meta(self, hashes, sizes) ==
    [self EXCEPT !.eth68_meta =
        [h \in DOMAIN self.eth68_meta \cup Range(hashes) |->
            IF h \in Range(hashes) THEN sizes[h] ELSE self.eth68_meta[h]]]

(* ------------------------------ dispatch ------------------------------ *)

\* A GetPooledTxRequestFut: the peer and the hashes requested from it.  (The
\* message version the hash list carries is read for logging only.)
Request(peer_id, hashes) ==
    [peer_id |-> peer_id, requested_hashes |-> hashes]

\* Mutant of request_transactions_from_peer: the peer's count is raised before
\* it is compared with the per-peer cap.
request_transactions_from_peer_counts_first(self, hashes, version, peer_id, send) ==
    IF Cardinality(DOMAIN self.active_peers) >= MAX_CONCURRENT_TX_REQUESTS
    THEN [self |-> self, some |-> TRUE, hashes |-> hashes, version |-> version,
          metric |-> 0]
    ELSE
    LET inserted == IF peer_id \in DOMAIN self.active_peers THEN self
                    ELSE [self EXCEPT !.active_peers = MapPut(@, peer_id, 0)]
        counted == [inserted EXCEPT !.active_peers[peer_id] = @ + 1]
    IN  IF inserted.active_peers[peer_id] >= MAX_CONCURRENT_TX_REQUESTS_PER_PEER
        THEN [self |-> counted, some |-> TRUE, hashes |-> hashes, version |-> version,
          metric |-> 0]
        ELSE IF send # "ok"
        THEN [self |-> counted, some |-> TRUE, hashes |-> hashes,
              version |-> version, metric |-> 1]
        ELSE [self |-> [counted EXCEPT !.inflight_requests =
                           @ (+) SetToBag({Request(peer_id, hashes)})],
              some |-> FALSE, hashes |-> <<>>, version |-> version,
              metric |-> 0]

\* Mutant of request_transactions_from_peer: the per-peer cap is compared with
\* > instead of >=.
request_transactions_from_peer_off_by_one(self, hashes, version, peer_id, send) ==
    IF Cardinality(DOMAIN self.active_peers) >= MAX_CONCURRENT_TX_REQUESTS
    THEN [self |-> self, some |-> TRUE, hashes |-> hashes, version |-> version,
          metric |-> 0]
    ELSE
    LET inserted == IF peer_id \in DOMAIN self.active_peers THEN self
                    ELSE [self EXCEPT !.active_peers = MapPut(@, peer_id, 0)]
    IN  IF inserted.active_peers[peer_id] > MAX_CONCURRENT_TX_REQUESTS_PER_PEER
        THEN [self |-> inserted, some |-> TRUE, hashes |-> hashes, version |-> version,
          metric |-> 0]
        ELSE
        LET counted == [inserted EXCEPT !.active_peers[peer_id] = @ + 1]
        IN  IF send # "ok"
            THEN [self |-> counted, some |-> TRUE, hashes |-> hashes,
                  version |-> version, metric |-> 1]
            ELSE [self |-> [counted EXCEPT !.inflight_requests =
                               @ (+) SetToBag({Request(peer_id, hashes)})],
                  some |-> FALSE, hashes |-> <<>>, version |-> version,
              metric |-> 0]

\* Mutant of request_transactions_from_peer: on a closed channel the hashes of
\* the request are not handed back.
request_transactions_from_peer_drops_on_closed(self, hashes, version, peer_id, send) ==
    IF Cardinality(DOMAIN self.active_peers) >= MAX_CONCURRENT_TX_REQUESTS
    THEN [self |-> self, some |-> TRUE, hashes |-> hashes, version |-> version,
          metric |-> 0]
    ELSE
    LET inserted == IF peer_id \in DOMAIN self.active_peers THEN self
                    ELSE [self EXCEPT !.active_peers = MapPut(@, peer_id, 0)]
    IN  IF inserted.active_peers[peer_id] >= MAX_CONCURRENT_TX_REQUESTS_PER_PEER
        THEN [self |-> inserted, some |-> TRUE, hashes |-> hashes,
              version |-> version, metric |-> 0]
        ELSE
        LET counted == [inserted EXCEPT !.active_peers[peer_id] = @ + 1]
        IN  IF send = "full"
            THEN [self |-> counted, some |-> TRUE, hashes |-> hashes,
                  version |-> version, metric |-> 1]
            ELSE IF send = "closed"
            THEN [self |-> counted, some |-> TRUE, hashes |-> <<>>,
                  version |-> version, metric |-> 1]
            ELSE [self |-> [counted EXCEPT !.inflight_requests =
                               @ (+) SetToBag({Request(peer_id, hashes)})],
                  some |-> FALSE, hashes |-> <<>>, version |-> version,
                  metric |-> 0]

\* request_transactions_from_peer; `send` is what try_send answers: "ok",
\* "full" or "closed".  `some` tells Some(hashes) from None, `hashes` and
\* `version` are the returned ValidTxHashes, `metric` counts the calls of
\* metrics_increment_egress_peer_channel_full.
request_transactions_from_peer(self, hashes, version, peer_id, send) ==
    IF Cardinality(DOMAIN self.active_peers) >= MAX_CONCURRENT_TX_REQUESTS
    THEN [self |-> self, some |-> TRUE, hashes |-> hashes, version |-> version,
          metric |-> 0]
    ELSE
    LET inserted == IF peer_id \in DOMAIN self.active_peers THEN self
                    ELSE [self EXCEPT !.active_peers = MapPut(@, peer_id, 0)]
    IN  IF inserted.active_peers[peer_id] >= MAX_CONCURRENT_TX_REQUESTS_PER_PEER
        THEN [self |-> inserted, some |-> TRUE, hashes |-> hashes, version |-> version,
          metric |-> 0]
        ELSE
        LET counted == [inserted EXCEPT !.active_peers[peer_id] = @ + 1]
        IN  IF send # "ok"
            THEN [self |-> counted, some |-> TRUE, hashes |-> hashes,
                  version |-> version, metric |-> 1]
            ELSE [self |-> [counted EXCEPT !.inflight_requests =
                               @ (+) SetToBag({Request(peer_id, hashes)})],
                  some |-> FALSE, hashes |-> <<>>, version |-> version,
              metric |-> 0]

(* ---------------------------- augmentation ---------------------------- *)

\* The loop of fill_eth68_request_for_peer over the buffered hashes `buf`
\* from index i on.
RECURSIVE fill_eth68_loop(_, _, _, _, _, _)
fill_eth68_loop(self, buf, i, hashes, peer_id, acc) ==
    IF i > Len(buf) THEN [self |-> self, hashes |-> hashes, acc |-> acc]
    ELSE IF Len(hashes) > GET_POOLED_TRANSACTION_SOFT_LIMIT_NUM_HASHES
    THEN [self |-> self, hashes |-> hashes, acc |-> acc]
    ELSE IF acc >= (2 * SOFT_LIMIT_BYTE_SIZE_POOLED_TRANSACTIONS_RESPONSE_MESSAGE) \div 3
    THEN [self |-> self, hashes |-> hashes, acc |-> acc]
    ELSE
    LET hash == buf[i]
        r == include_eth68_hash(self, acc, hash)
    IN  IF hash \notin DOMAIN self.eth68_meta
        THEN fill_eth68_loop(self, buf, i + 1, hashes, peer_id, acc)
        ELSE IF ~r.included
        THEN fill_eth68_loop(self, buf, i + 1, hashes, peer_id, acc)
        ELSE IF /\ hash \in DOMAIN self.unknown_hashes
                /\ Contains(self.unknown_hashes[hash].peers, peer_id)
        THEN fill_eth68_loop(
                 [self EXCEPT !.unknown_hashes[hash].peers = Without(@, peer_id)],
                 buf, i + 1, Append(hashes, hash), peer_id, r.acc)
        ELSE fill_eth68_loop(self, buf, i + 1, hashes, peer_id, acc)

\* fill_eth68_request_for_peer.
fill_eth68_request_for_peer(self, hashes, peer_id, acc_size_response) ==
    IF acc_size_response >=
           SOFT_LIMIT_BYTE_SIZE_POOLED_TRANSACTIONS_RESPONSE_MESSAGE \div 2
    THEN [self |-> self, hashes |-> hashes, acc |-> acc_size_response]
    ELSE LET r == fill_eth68_loop(self, self.buffered_hashes, 1, hashes,
                                  peer_id, acc_size_response)
         IN  [r EXCEPT !.self.buffered_hashes =
                 SelectSeq(@, LAMBDA h : h \notin Range(r.hashes))]

\* The loop of fill_eth66_request_for_peer over the buffered hashes `buf`
\* from index i on.
RECURSIVE fill_eth66_loop(_, _, _, _, _)
fill_eth66_loop(self, buf, i, hashes, peer_id) ==
    IF i > Len(buf) THEN [self |-> self, hashes |-> hashes]
    ELSE IF Len(hashes) >= GET_POOLED_TRANSACTION_SOFT_LIMIT_NUM_HASHES
    THEN [self |-> self, hashes |-> hashes]
    ELSE
    LET hash == buf[i] IN
    IF hash \in DOMAIN self.eth68_meta
    THEN fill_eth66_loop(self, buf, i + 1, hashes, peer_id)
    ELSE IF /\ hash \in DOMAIN self.unknown_hashes
            /\ Contains(self.unknown_hashes[hash].peers, peer_id)
    THEN fill_eth66_loop(
             [self EXCEPT !.unknown_hashes[hash].peers = Without(@, peer_id)],
             buf, i + 1, Append(hashes, hash), peer_id)
    ELSE fill_eth66_loop(self, buf, i + 1, hashes, peer_id)

\* Mutant of fill_eth66_request_for_peer: the hashes taken for the request are
\* not removed from the buffer.
fill_eth66_request_for_peer_keeps_buffered(self, hashes, peer_id) ==
    fill_eth66_loop(self, self.buffered_hashes, 1, hashes, peer_id)

\* fill_eth66_request_for_peer.
fill_eth66_request_for_peer(self, hashes, peer_id) ==
    LET r == fill_eth66_loop(self, self.buffered_hashes, 1, hashes, peer_id)
    IN  [r EXCEPT !.self.buffered_hashes =
            SelectSeq(@, LAMBDA h : h \notin Range(r.hashes))]

\* The accumulated response size the driver hands to the eth68 augmentation:
\* the sum the debug assertion of fill_eth68_request_for_peer recomputes.
RECURSIVE acc_size_of(_, _, _, _)
acc_size_of(self, hashes, i, acc) ==
    IF i > Len(hashes) THEN acc
    ELSE acc_size_of(self, hashes, i + 1,
                     include_eth68_hash(self, acc, hashes[i]).acc)

\* The augmentation for the version of the request.
fill_request_for_peer(self, hashes, version, peer_id) ==
    IF version = "eth68"
    THEN LET r == fill_eth68_request_for_peer(self, hashes, peer_id,
                                              acc_size_of(self, hashes, 1, 0))
         IN  [self |-> r.self, hashes |-> r.hashes]
    ELSE fill_eth66_request_for_peer(self, hashes, peer_id)

(* ----------------------------- completion ----------------------------- *)

Pending == [kind |-> "Pending", peer_id |-> None, error |-> "none"]

\* Mutant of poll_next: the hashes of the returned transactions are not
\* cleared; every requested hash is buffered for retry.
poll_next_keeps_fetched(self, response, result) ==
    LET taken == [self EXCEPT !.inflight_requests = @ (-) SetToBag({response})]
        counted == decrement_inflight_request_count_for(taken, response.peer_id)
        requested == response.requested_hashes
    IN  IF result.kind = "ok"
        THEN [self |-> buffer_hashes_for_retry(counted, requested),
              event |-> [kind |-> "TransactionsFetched",
                         peer_id |-> response.peer_id, error |-> "none"]]
        ELSE [self |-> buffer_hashes_for_retry(counted, requested),
              event |-> [kind |-> "FetchError", peer_id |-> response.peer_id,
                         error |-> IF result.kind = "err" THEN "RequestError"
                                   ELSE "ChannelClosed"]]

\* Mutant of poll_next: a dropped response port is reported as the peer's
\* request error.
poll_next_closed_as_request_error(self, response, result) ==
    LET taken == [self EXCEPT !.inflight_requests = @ (-) SetToBag({response})]
        counted == decrement_inflight_request_count_for(taken, response.peer_id)
        requested == response.requested_hashes
    IN  IF result.kind = "ok"
        THEN LET fetched == {h \in Range(requested) : h \in result.hashes}
                 leftover == SelectSeq(requested, LAMBDA h : h \notin fetched)
             IN  [self |-> buffer_hashes_for_retry(
                               remove_from_unknown_hashes(counted, fetched),
                               leftover),
                  event |-> [kind |-> "TransactionsFetched",
                             peer_id |-> response.peer_id, error |-> "none"]]
        ELSE [self |-> buffer_hashes_for_retry(counted, requested),
              event |-> [kind |-> "FetchError", peer_id |-> response.peer_id,
                         error |-> "RequestError"]]

\* poll_next for a resolved request `response` with `result`: kind "ok" with
\* the set of hashes of the returned transactions, kind "err" (the peer
\* answered with a request error) or kind "closed" (the response port was
\* dropped).
poll_next(self, response, result) ==
    LET taken == [self EXCEPT !.inflight_requests = @ (-) SetToBag({response})]
        counted == decrement_inflight_request_count_for(taken, response.peer_id)
        requested == response.requested_hashes
    IN  IF result.kind = "ok"
        THEN LET fetched == {h \in Range(requested) : h \in result.hashes}
                 leftover == SelectSeq(requested, LAMBDA h : h \notin fetched)
             IN  [self |-> buffer_hashes_for_retry(
                               remove_from_unknown_hashes(counted, fetched),
                               leftover),
                  event |-> [kind |-> "TransactionsFetched",
                             peer_id |-> response.peer_id, error |-> "none"]]
        ELSE [self |-> buffer_hashes_for_retry(counted, requested),
              event |-> [kind |-> "FetchError", peer_id |-> response.peer_id,
                         error |-> IF result.kind = "err" THEN "RequestError"
                                   ELSE "ChannelClosed"]]

\* poll_next when no inflight request has resolved: Poll::Pending.
poll_next_pending(self) == [self |-> self, event |-> Pending]

(* ----------------------------- scenarios ----------------------------- *)

\* One step of the driver, as the history records it.
Step(op, peer_id, version, hashes, result, returned) ==
    [op |-> op, peer_id |-> peer_id, version |-> version, hashes |-> hashes,
     result |-> result, returned |-> returned]

StepIntake(peer_id, version, announced) ==
    Step("Intake", peer_id, version, announced, "", {})

StepPoll(peer_id, requested, result) ==
    Step("PollNext", peer_id, "", requested, result.kind, result.hashes)

StepOf(op) == Step(op, None, "", <<>>, "", {})

StepDispatch(send) == Step("Dispatch", None, "", <<>>, send, {})

StepRequestBuffered(peer_id, version) ==
    Step("RequestBuffered", peer_id, version, <<>>, "", {})

\* Once a run leaves every scenario its history is no longer recorded.
Off == <<StepOf("off")>>

\* One fetch of hash 2 from `peer_id` that the peer answers with no
\* transactions.
FetchAnsweredEmpty(peer_id) ==
    <<StepIntake(peer_id, "eth66", <<2>>), StepOf("PackHashes"),
      StepDispatch("ok"),
      StepPoll(peer_id, <<2>>, [kind |-> "ok", hashes |-> {}])>>

\* Retry bound: hash 2 is fetched three times in a row, from peer 1, peer 2
\* and peer 1 again, and never returned.
RetryScenario ==
    FetchAnsweredEmpty(1) \o FetchAnsweredEmpty(2) \o FetchAnsweredEmpty(1)

\* Fallback promotion: hash 2 (eth68) is announced by peer 1 and requested
\* from it, peer 2 announces it too, and the request to peer 1 fails.
PromotionScenario ==
    <<StepIntake(1, "eth68", <<2>>), StepOf("PackHashes"), StepDispatch("ok"),
      StepIntake(2, "eth68", <<2>>),
      StepPoll(1, <<2>>, [kind |-> "err", hashes |-> {}])>>

\* Broadcast race: hash 2 (eth68) is inflight to peer 1 when its transaction
\* arrives by broadcast; the request to peer 1 then resolves without it.
BroadcastRace(result) ==
    <<StepIntake(1, "eth68", <<2>>), StepOf("PackHashes"), StepDispatch("ok"),
      Step("Broadcast", None, "", <<>>, "", {2}),
      StepPoll(1, <<2>>, result)>>

BroadcastRaceScenarios ==
    {BroadcastRace([kind |-> k, hashes |-> {}]) : k \in {"ok", "err", "closed"}}

\* Round trip: hash 2 (eth68) is announced by peer 1, requested from it, and
\* the response contains it.
RoundTripScenario ==
    <<StepIntake(1, "eth68", <<2>>), StepOf("PackHashes"), StepDispatch("ok"),
      StepPoll(1, <<2>>, [kind |-> "ok", hashes |-> {2}])>>

Scenarios ==
    {RetryScenario, PromotionScenario, RoundTripScenario}
        \cup BroadcastRaceScenarios

ScenarioPrefixes ==
    UNION {{SubSeq(s, 1, k) : k \in 0 .. Len(s)} : s \in Scenarios}

\* The history after `step`.
Log(step) ==
    hist' = IF hist # Off /\ Append(hist, step) \in ScenarioPrefixes
            THEN Append(hist, step)
            ELSE Off

(* ------------------------------ the driver ---------------------------- *)

\* The driver's locals outside a pipeline.
NoCur == [peer_id |-> None, version |-> "eth66", hashes |-> <<>>, surplus |-> <<>>]

Init ==
    /\ unknown_hashes = Default.unknown_hashes
    /\ eth68_meta = Default.eth68_meta
    /\ buffered_hashes = Default.buffered_hashes
    /\ active_peers = Default.active_peers
    /\ inflight_requests = Default.inflight_requests
    /\ pc = "idle"
    /\ cur = NoCur
    /\ event = Pending
    /\ ops = 0
    /\ hist = <<>>

\* An announcement of `announced` by `peer_id` goes through intake; the
\* retained hashes, when there are any, start a pipeline.
Intake(peer_id, version, announced, sizes, active) ==
    /\ pc = "idle"
    /\ ops < MaxOps
    /\ ops' = ops + 1
    /\ Log(StepIntake(peer_id, version, announced))
    /\ LET r == filter_unseen_and_pending_hashes(Self, announced, peer_id, active)
           recorded == IF version = "eth68"
                       THEN record_eth68_meta(r.self, r.hashes, sizes)
                       ELSE r.self
       IN  /\ Becomes(recorded)
           /\ IF r.hashes = <<>>
              THEN pc' = "idle" /\ cur' = NoCur
              ELSE /\ pc' = "filtered"
                   /\ cur' = [peer_id |-> peer_id, version |-> version,
                              hashes |-> r.hashes, surplus |-> <<>>]
    /\ event' = Pending

\* Packaging of the retained hashes.
PackHashes ==
    /\ pc = "filtered"
    /\ Log(StepOf("PackHashes"))
    /\ LET r == pack_hashes(Self, cur.hashes, cur.version)
       IN  /\ cur' = [cur EXCEPT !.hashes = r.hashes, !.surplus = r.surplus]
           /\ pc' = IF r.surplus = <<>> THEN "ready" ELSE "packed"
    /\ UNCHANGED <<unknown_hashes, eth68_meta, buffered_hashes, active_peers,
                   inflight_requests, event, ops>>

\* The driver buffers the surplus of packaging with the announcing peer as
\* fallback peer.
BufferSurplus ==
    /\ pc = "packed"
    /\ Log(StepOf("BufferSurplus"))
    /\ Becomes(buffer_hashes(Self, cur.surplus, cur.peer_id))
    /\ cur' = [cur EXCEPT !.surplus = <<>>]
    /\ pc' = "ready"
    /\ UNCHANGED <<event, ops>>

\* Augmentation of a packaged request from the buffer.
FillRequest ==
    /\ pc = "ready"
    /\ Log(StepOf("FillRequest"))
    /\ LET r == fill_request_for_peer(Self, cur.hashes, cur.version, cur.peer_id)
       IN  /\ Becomes(r.self)
           /\ cur' = [cur EXCEPT !.hashes = r.hashes]
    /\ pc' = "filled"
    /\ UNCHANGED <<event, ops>>

\* A request for `peer_id` assembled from the buffer alone.
RequestBuffered(peer_id, version) ==
    /\ pc = "idle"
    /\ ops < MaxOps
    /\ ops' = ops + 1
    /\ Log(StepRequestBuffered(peer_id, version))
    /\ LET r == fill_request_for_peer(Self, <<>>, version, peer_id)
       IN  /\ r.hashes # <<>>
           /\ Becomes(r.self)
           /\ cur' = [peer_id |-> peer_id, version |-> version,
                      hashes |-> r.hashes, surplus |-> <<>>]
    /\ pc' = "filled"
    /\ event' = Pending

\* Dispatch of the assembled request; try_send answers `send`.
Dispatch(send) ==
    /\ pc \in {"ready", "filled"}
    /\ Log(StepDispatch(send))
    /\ LET r == request_transactions_from_peer(Self, cur.hashes, cur.version,
                                               cur.peer_id, send)
       IN  /\ Becomes(r.self)
           /\ IF r.some
              THEN /\ pc' = "failed"
                   /\ cur' = [cur EXCEPT !.hashes = <<>>, !.surplus = r.hashes]
              ELSE pc' = "idle" /\ cur' = NoCur
    /\ UNCHANGED <<event, ops>>

\* The driver buffers the hashes dispatch has returned, for retry.
BufferForRetry ==
    /\ pc = "failed"
    /\ Log(StepOf("BufferForRetry"))
    /\ Becomes(buffer_hashes_for_retry(Self, cur.surplus))
    /\ pc' = "idle"
    /\ cur' = NoCur
    /\ UNCHANGED <<event, ops>>

\* The driver buffers the hashes dispatch has returned, with the peer as
\* fallback peer.
BufferWithFallback ==
    /\ pc = "failed"
    /\ Log(StepOf("BufferWithFallback"))
    /\ Becomes(buffer_hashes(Self, cur.surplus, cur.peer_id))
    /\ pc' = "idle"
    /\ cur' = NoCur
    /\ UNCHANGED <<event, ops>>

\* The event stream is polled and the inflight request `response` has
\* resolved with `result`.
PollNext(response, result) ==
    /\ pc = "idle"
    /\ BagIn(response, inflight_requests)
    /\ Log(StepPoll(response.peer_id, response.requested_hashes, result))
    /\ LET r == poll_next(Self, response, result)
       IN  Becomes(r.self) /\ event' = r.event
    /\ UNCHANGED <<pc, cur, ops>>

\* The event stream is polled and no inflight request has resolved.
PollPending ==
    /\ pc = "idle"
    /\ Log(StepOf("PollPending"))
    /\ LET r == poll_next_pending(Self)
       IN  Becomes(r.self) /\ event' = r.event
    /\ UNCHANGED <<pc, cur, ops>>

\* Full transactions with these hashes arrive by broadcast.
Broadcast(hashes) ==
    /\ pc = "idle"
    /\ ops < MaxOps
    /\ ops' = ops + 1
    /\ Log(Step("Broadcast", None, "", <<>>, "", hashes))
    /\ Becomes(on_received_full_transactions_broadcast(Self, hashes))
    /\ event' = Pending
    /\ UNCHANGED <<pc, cur>>

\* What a resolved request may carry.
Results(response) ==
    {[kind |-> "ok", hashes |-> hs] : hs \in SUBSET Range(response.requested_hashes)}
        \cup {[kind |-> "err", hashes |-> {}], [kind |-> "closed", hashes |-> {}]}

\* The announcements handed to intake: up to MaxAnnounce distinct hashes, in
\* ascending order.
Announcements ==
    {s \in DistinctSeqs(Hashes, MaxAnnounce) \ {<<>>} :
        \A i, j \in 1 .. Len(s) : i < j => s[i] < s[j]}

Next ==
    \/ \E peer_id \in Peers, announced \in Announcements,
          active \in SUBSET Peers :
          /\ peer_id \in active
          /\ \E version \in Versions :
                 Intake(peer_id, version, announced,
                        [h \in Range(announced) |-> SizeOf(h)], active)
    \/ PackHashes
    \/ BufferSurplus
    \/ FillRequest
    \/ \E peer_id \in Peers, version \in Versions :
          RequestBuffered(peer_id, version)
    \/ \E send \in {"ok", "full", "closed"} : Dispatch(send)
    \/ BufferForRetry
    \/ BufferWithFallback
    \/ \E response \in BagToSet(inflight_requests) :
          \E result \in Results(response) : PollNext(response, result)
    \/ PollPending
    \/ \E hashes \in SUBSET Hashes \ {{}} : Broadcast(hashes)

Spec == Init /\ [][Next]_vars

(* ------------------------- packaging on its own ---------------------- *)

\* Longest list handed to packaging.
MaxPack == 6

\* The sizes an eth68 announcement declares: those of the test
\* pack_eth68_request_surplus_hashes, and one beyond the limit.
PackSizes ==
    {1, 2, 3,
     SOFT_LIMIT_BYTE_SIZE_POOLED_TRANSACTIONS_RESPONSE_MESSAGE - 4,
     SOFT_LIMIT_BYTE_SIZE_POOLED_TRANSACTIONS_RESPONSE_MESSAGE,
     SOFT_LIMIT_BYTE_SIZE_POOLED_TRANSACTIONS_RESPONSE_MESSAGE + 1}

\* The fetcher as the test pack_eth68_request_surplus_hashes sets it up: the
\* hashes 1 .. n are tracked with no retries, the eth68 ones with any declared
\* sizes, and the list 1 .. n is about to be packaged for peer 1.
PackInit ==
    \E n \in 0 .. MaxPack, version \in Versions :
        /\ unknown_hashes = [h \in 1 .. n |-> [retries |-> 0, peers |-> <<>>]]
        /\ IF version = "eth68"
           THEN eth68_meta \in [1 .. n -> PackSizes]
           ELSE eth68_meta = EmptyMap
        /\ buffered_hashes = Default.buffered_hashes
        /\ active_peers = Default.active_peers
        /\ inflight_requests = Default.inflight_requests
        /\ pc = "filtered"
        /\ cur = [peer_id |-> 1, version |-> version,
                  hashes |-> [i \in 1 .. n |-> i], surplus |-> <<>>]
        /\ event = Pending
        /\ ops = 1
        /\ hist = Off

PackNext == PackHashes

PackSpec == PackInit /\ [][PackNext]_vars

(* ------------------------------ fairness ------------------------------ *)

\* The driver finishes the pipeline it has started, and every registered
\* inflight request eventually resolves and is polled.
Fairness ==
    /\ WF_vars(PackHashes)
    /\ WF_vars(BufferSurplus)
    /\ WF_vars(FillRequest)
    /\ WF_vars(\E send \in {"ok", "full", "closed"} : Dispatch(send))
    /\ WF_vars(BufferForRetry \/ BufferWithFallback)
    /\ WF_vars(\E response \in BagToSet(inflight_requests) :
                   \E result \in Results(response) : PollNext(response, result))

LiveSpec == Spec /\ Fairness

(* ------------------- the idle peer lookup on its own ------------------- *)

\* Number of buffered hashes the lookup is asked about.
MaxIdleHashes == 2

\* The lookup starts from a fetcher in which some of the hashes
\* 1 .. MaxIdleHashes are tracked and buffered, each with any list of distinct
\* fallback peers, and some peers are busy: a busy peer p has one inflight
\* request, for the hash MaxIdleHashes + p.
IdleInit ==
    \E tracked \in SUBSET (1 .. MaxIdleHashes), busy \in SUBSET Peers :
        /\ \E fallback \in [tracked -> DistinctSeqs(Peers, MAX_ALTERNATIVE_PEERS_PER_TX)] :
               unknown_hashes =
                   [h \in tracked \cup {MaxIdleHashes + p : p \in busy} |->
                       IF h \in tracked
                       THEN [retries |-> 0, peers |-> fallback[h]]
                       ELSE [retries |-> 0, peers |-> <<>>]]
        /\ eth68_meta = EmptyMap
        /\ buffered_hashes = SelectSeq([h \in 1 .. MaxIdleHashes |-> h],
                                       LAMBDA h : h \in tracked)
        /\ active_peers = [p \in busy |-> MAX_CONCURRENT_TX_REQUESTS_PER_PEER]
        /\ inflight_requests =
               SetToBag({Request(p, <<MaxIdleHashes + p>>) : p \in busy})
        /\ pc = "idle"
        /\ cur = NoCur
        /\ event = Pending
        /\ ops = 0
        /\ hist = Off

\* The driver looks for an idle peer to request the buffered hash from;
\* `active` are the peers whose session is active.  It keeps the peer found.
GetIdlePeer(hash, active) ==
    /\ pc = "idle"
    /\ LET r == get_idle_peer_for(Self, hash, <<>>, active)
       IN  /\ pc' = IF r.peer = None THEN "no_peer" ELSE "found"
           /\ cur' = [NoCur EXCEPT !.peer_id = r.peer, !.hashes = <<hash>>]
    /\ UNCHANGED <<unknown_hashes, eth68_meta, buffered_hashes, active_peers,
                   inflight_requests, event, ops, hist>>

IdleNext ==
    \E hash \in 1 .. MaxIdleHashes, active \in SUBSET Peers :
        GetIdlePeer(hash, active)

IdleSpec == IdleInit /\ [][IdleNext]_vars

(* ------------------------ vocabulary of the claims -------------------- *)

\* The inflight requests, each once.
Inflight == BagToSet(inflight_requests)

\* The hashes requested by some inflight request.
InflightHashes == UNION {Range(r.requested_hashes) : r \in Inflight}

\* The number of inflight requests to peer p.
NumInflightTo(p) ==
    BagCardinality([r \in {x \in Inflight : x.peer_id = p} |-> inflight_requests[r]])

\* The fallback peers of a tracked hash.
FallbackPeers(h) == Range(unknown_hashes[h].peers)

Buffered(h) == Contains(buffered_hashes, h)

\* The step is a dispatch: the only steps that leave "ready" or "filled" for
\* "idle" or "failed".
IsDispatchStep == pc \in {"ready", "filled"} /\ pc' \in {"idle", "failed"}

\* The step is a poll of the event stream: the only step between two
\* pipelines that takes a request out of inflight_requests.
IsPollStep == pc = "idle" /\ pc' = "idle" /\ inflight_requests' # inflight_requests

(* -------------------------------- claims ------------------------------ *)

\* C1: between the driver's operations no hash is at once in buffered_hashes
\* and among the requested hashes of an inflight request.
C1_NoHashBufferedAndInflight ==
    pc = "idle" => \A h \in Range(buffered_hashes) : h \notin InflightHashes

\* C2: between the driver's operations every peer in active_peers has a count
\* equal to the number of inflight requests to it, and the count is positive
\* and at most MAX_CONCURRENT_TX_REQUESTS_PER_PEER.
C2_ActivePeersCountInflight ==
    pc = "idle" =>
        \A p \in DOMAIN active_peers :
            /\ active_peers[p] = NumInflightTo(p)
            /\ 0 < active_peers[p]
            /\ active_peers[p] <= MAX_CONCURRENT_TX_REQUESTS_PER_PEER

\* C3: every buffered hash is a key of unknown_hashes.
C3_BufferedSubsetOfUnknown == Range(buffered_hashes) \subseteq DOMAIN unknown_hashes

\* A completion has just fetched transactions and every hash still tracked
\* sits in the buffer.
C3_Witness ==
    /\ event.kind = "TransactionsFetched"
    /\ buffered_hashes # <<>>
    /\ DOMAIN unknown_hashes = Range(buffered_hashes)
    /\ Cardinality(DOMAIN unknown_hashes) < NumHashes

\* C4: an intake from peer p drops every announced hash that is tracked and not
\* buffered (an inflight hash) and leaves p among the fallback peers of that
\* hash.
C4_IntakeRegistersFallback ==
    [][(pc = "idle" /\ ops' # ops) =>
        \A p \in Peers, v \in Versions, a \in Announcements, act \in SUBSET Peers :
            Intake(p, v, a, [h \in Range(a) |-> SizeOf(h)], act) =>
                \A h \in Range(a) :
                    (h \in DOMAIN unknown_hashes /\ ~Buffered(h)) =>
                        /\ ~Contains(cur'.hashes, h)
                        /\ h \in DOMAIN unknown_hashes'
                        /\ p \in Range(unknown_hashes'[h].peers)]_vars

\* C5: fallback promotion end to end.  After hash 2 (eth68) went inflight to
\* peer 1, was announced by peer 2, and the request to peer 1 failed, the hash
\* is buffered with one retry and peer 2 as its only fallback peer; a request
\* then assembled for peer 2 from the buffer includes the hash, takes it out of
\* the buffer and takes peer 2 out of its fallback peers.
C5_FallbackPromotion ==
    hist = PromotionScenario =>
        /\ Buffered(2)
        /\ 2 \in DOMAIN unknown_hashes
        /\ unknown_hashes[2].retries = 1
        /\ FallbackPeers(2) = {2}
        /\ LET r == fill_request_for_peer(Self, <<>>, "eth68", 2)
           IN  /\ Contains(r.hashes, 2)
               /\ ~Contains(r.self.buffered_hashes, 2)
               /\ 2 \notin Range(r.self.unknown_hashes[2].peers)

C7_BusyPeerTurnedDown ==
    [][/\ (IsDispatchStep /\ NumInflightTo(cur.peer_id) > 0) =>
              /\ pc' = "failed"
              /\ cur'.surplus = cur.hashes
              /\ inflight_requests' = inflight_requests
              /\ active_peers' = active_peers
              /\ active_peers[cur.peer_id] = 1
       /\ \A p \in Peers :
              /\ NumInflightTo(p)' <= 1
              /\ NumInflightTo(p)' > 0 => p \in DOMAIN active_peers']_vars

\* A dispatch to a peer with an inflight request has returned its hashes.
C7_Witness ==
    /\ pc = "failed"
    /\ cur.surplus # <<>>
    /\ NumInflightTo(cur.peer_id) = 1
    /\ Cardinality(DOMAIN active_peers) < MAX_CONCURRENT_TX_REQUESTS

\* C8: every tracked hash has at most MAX_REQUEST_RETRIES_PER_TX_HASH retries.
C8_RetriesBounded ==
    \A h \in DOMAIN unknown_hashes :
        unknown_hashes[h].retries <= MAX_REQUEST_RETRIES_PER_TX_HASH

\* A hash has reached the retry bound and is inflight once more.
C8_Witness ==
    \E h \in DOMAIN unknown_hashes :
        /\ unknown_hashes[h].retries = MAX_REQUEST_RETRIES_PER_TX_HASH
        /\ h \in InflightHashes

\* C9: when a request completes, each requested hash that was not returned and
\* is still tracked has its retries raised from 0 to 1 or from 1 to 2 and is
\* buffered, or, when its retries were already 2, is dropped from
\* unknown_hashes, buffered_hashes and eth68_meta; three such completions in a
\* row take a hash from 0 retries to 1, to 2, and out of the tables.  "No other
\* events on that hash" is read as: the hash is not in the buffer while its
\* request is inflight (a broadcast followed by a new announcement would put
\* it there), and the request is no longer than the buffer's capacity (a
\* longer one evicts its own first hashes while it is being buffered).
C9_RetryBound ==
    [][IsPollStep =>
        \A r \in Inflight : \A res \in Results(r) :
            PollNext(r, res) =>
                \A h \in Range(r.requested_hashes) :
                    (/\ res.kind = "ok" => h \notin res.hashes
                     /\ h \in DOMAIN unknown_hashes
                     /\ ~Buffered(h)
                     /\ Len(r.requested_hashes) <= MAX_CAPACITY_BUFFERED_HASHES) =>
                        IF unknown_hashes[h].retries < MAX_REQUEST_RETRIES_PER_TX_HASH
                        THEN /\ h \in DOMAIN unknown_hashes'
                             /\ unknown_hashes'[h].retries = unknown_hashes[h].retries + 1
                             /\ Buffered(h)'
                        ELSE /\ h \notin DOMAIN unknown_hashes'
                             /\ ~Buffered(h)'
                             /\ h \notin DOMAIN eth68_meta']_vars

\* Hash 2 has been fetched three times in a row without being returned, and is
\* gone.
C9_Witness ==
    /\ hist = RetryScenario
    /\ 2 \notin DOMAIN unknown_hashes
    /\ ~Buffered(2)

\* C10: every request dispatch has posted carries at least one hash and at
\* most GET_POOLED_TRANSACTION_SOFT_LIMIT_NUM_HASHES hashes.  (A request of a
\* single oversize hash, the one exception the claim makes, is within the
\* limit on the number of hashes.)
C10_RequestWithinHashLimit ==
    \A r \in Inflight :
        /\ Len(r.requested_hashes) >= 1
        /\ Len(r.requested_hashes) <= GET_POOLED_TRANSACTION_SOFT_LIMIT_NUM_HASHES

\* The three hash tables hold nothing of hash h.
Absent(h) ==
    /\ h \notin DOMAIN unknown_hashes
    /\ ~Buffered(h)
    /\ h \notin DOMAIN eth68_meta

C12_BroadcastBeforeResponse ==
    [][IsPollStep =>
        \A r \in Inflight : \A res \in Results(r) :
            PollNext(r, res) =>
                \A h \in Range(r.requested_hashes) :
                    (/\ h \notin DOMAIN unknown_hashes
                     /\ res.kind = "ok" => h \notin res.hashes) =>
                        Absent(h)']_vars

\* Hash 2 was broadcast while inflight to peer 1, and the request to peer 1
\* has since failed.
C12_Witness ==
    /\ hist \in BroadcastRaceScenarios
    /\ event.kind = "FetchError"
    /\ event.peer_id = 1
    /\ Absent(2)

\* C13: when a request completes with a response that contains a hash it had
\* requested, the hash is absent from unknown_hashes, buffered_hashes and
\* eth68_meta afterwards.
C13_RoundTrip ==
    [][IsPollStep =>
        \A r \in Inflight : \A res \in Results(r) :
            (PollNext(r, res) /\ res.kind = "ok") =>
                \A h \in Range(r.requested_hashes) \cap res.hashes : Absent(h)']_vars

\* Hash 2 was announced, requested and returned.
C13_Witness ==
    /\ hist = RoundTripScenario
    /\ event.kind = "TransactionsFetched"
    /\ Absent(2)
    /\ inflight_requests = EmptyBag

\* The declared sizes of a list of hashes, in the order of the list.
SizesOf(hashes) == [i \in 1 .. Len(hashes) |-> eth68_meta[hashes[i]]]

\* The sum of a sequence of numbers.
RECURSIVE Sum(_)
Sum(s) == IF s = <<>> THEN 0 ELSE Head(s) + Sum(Tail(s))

\* a is b with some elements left out, the others in b's order (both without
\* repetitions).
IsSubsequence(a, b) ==
    \E f \in [1 .. Len(a) -> 1 .. Len(b)] :
        /\ \A i \in 1 .. Len(a) : b[f[i]] = a[i]
        /\ \A i, j \in 1 .. Len(a) : i < j => f[i] < f[j]

\* The reference for eth68 packaging.  A first hash of at least the limit is
\* requested alone.  Otherwise the hashes are scanned in order: fill[i] is the
\* size accumulated after the first i hashes, and hash i is kept iff it fits
\* on top of fill[i - 1].
ReferencePack68(hashes, sizes) ==
    LET n == Len(hashes)
        limit == SOFT_LIMIT_BYTE_SIZE_POOLED_TRANSACTIONS_RESPONSE_MESSAGE
        fill[i \in 0 .. n] ==
            IF i = 0 THEN 0
            ELSE IF fill[i - 1] + sizes[i] <= limit
                 THEN fill[i - 1] + sizes[i]
                 ELSE fill[i - 1]
        kept == {i \in 1 .. n : fill[i - 1] + sizes[i] <= limit}
        pick(S) == LET idx == {i \in 1 .. n : i \in S}
                       nth[k \in 1 .. Cardinality(idx)] ==
                           CHOOSE i \in idx :
                               Cardinality({j \in idx : j < i}) = k - 1
                   IN  [k \in 1 .. Cardinality(idx) |-> hashes[nth[k]]]
    IN  IF n > 0 /\ sizes[1] >= limit
        THEN [hashes |-> <<hashes[1]>>, surplus |-> Tail(hashes)]
        ELSE [hashes |-> pick(kept), surplus |-> pick((1 .. n) \ kept)]

\* C14: eth68 packaging of a list with size metadata gives the request and
\* the surplus of the reference; each is the input with hashes left out, in the
\* input's order, and together they hold every hash of the input once; and
\* for the sizes LIMIT - 4, LIMIT, 2, 3, 2, 1 the request is the first, third
\* and fifth hash and the surplus the second, fourth and sixth.
C14_PackEth68Reference ==
    [][(pc = "filtered" /\ cur.version = "eth68") =>
        LET input == cur.hashes
            ref == ReferencePack68(input, SizesOf(input))
        IN  /\ cur'.hashes = ref.hashes
            /\ cur'.surplus = ref.surplus
            /\ IsSubsequence(cur'.hashes, input)
            /\ IsSubsequence(cur'.surplus, input)
            /\ Range(cur'.hashes) \cup Range(cur'.surplus) = Range(input)
            /\ Len(cur'.hashes) + Len(cur'.surplus) = Len(input)
            /\ SizesOf(input) =
                   <<SOFT_LIMIT_BYTE_SIZE_POOLED_TRANSACTIONS_RESPONSE_MESSAGE - 4,
                     SOFT_LIMIT_BYTE_SIZE_POOLED_TRANSACTIONS_RESPONSE_MESSAGE,
                     2, 3, 2, 1>> =>
                   /\ cur'.hashes = <<input[1], input[3], input[5]>>
                   /\ cur'.surplus = <<input[2], input[4], input[6]>>]_vars

\* The list of the test has been packaged.
C14_Witness ==
    /\ pc = "packed"
    /\ cur.version = "eth68"
    /\ eth68_meta =
           <<SOFT_LIMIT_BYTE_SIZE_POOLED_TRANSACTIONS_RESPONSE_MESSAGE - 4,
             SOFT_LIMIT_BYTE_SIZE_POOLED_TRANSACTIONS_RESPONSE_MESSAGE,
             2, 3, 2, 1>>
    /\ cur.hashes = <<1, 3, 5>>
    /\ cur.surplus = <<2, 4, 6>>

\* C15: after eth68 packaging the declared sizes of the hashes left in the
\* request sum to at most the byte limit, unless the request is one hash
\* whose declared size alone is at least the limit.
C15_PackedSizeWithinLimit ==
    (pc \in {"ready", "packed"} /\ cur.version = "eth68") =>
        \/ Sum(SizesOf(cur.hashes)) <=
               SOFT_LIMIT_BYTE_SIZE_POOLED_TRANSACTIONS_RESPONSE_MESSAGE
        \/ /\ Len(cur.hashes) = 1
           /\ eth68_meta[cur.hashes[1]] >=
                  SOFT_LIMIT_BYTE_SIZE_POOLED_TRANSACTIONS_RESPONSE_MESSAGE

\* Packaging has filled a request of several hashes to the limit exactly and
\* turned other hashes away.
C15_Witness ==
    /\ pc = "packed"
    /\ cur.version = "eth68"
    /\ Len(cur.hashes) >= 3
    /\ Sum(SizesOf(cur.hashes)) =
           SOFT_LIMIT_BYTE_SIZE_POOLED_TRANSACTIONS_RESPONSE_MESSAGE
    /\ Len(cur.surplus) >= 2

\* C16: eth66 packaging leaves a list of at most the limit unchanged, with no
\* surplus; a longer list is cut at index limit - 1, the tail is the surplus,
\* and request followed by surplus is the input; either way the request holds
\* at most the limit.
C16_PackEth66 ==
    [][(pc = "filtered" /\ cur.version = "eth66") =>
        LET input == cur.hashes
            limit == GET_POOLED_TRANSACTION_SOFT_LIMIT_NUM_HASHES
        IN  /\ IF Len(input) <= limit
               THEN cur'.hashes = input /\ cur'.surplus = <<>>
               ELSE /\ cur'.hashes = [i \in 1 .. limit - 1 |-> input[i]]
                    /\ cur'.surplus =
                           [i \in 1 .. Len(input) - (limit - 1) |->
                               input[i + limit - 1]]
                    /\ cur'.hashes \o cur'.surplus = input
            /\ Len(cur'.hashes) <= limit]_vars

\* A list longer than the limit has been cut.
C16_Witness ==
    /\ pc = "packed"
    /\ cur.version = "eth66"
    /\ Len(cur.hashes) = GET_POOLED_TRANSACTION_SOFT_LIMIT_NUM_HASHES - 1
    /\ Len(cur.surplus) > 1

\* C17: after an intake every hash retained in the announcement is in
\* unknown_hashes and not in buffered_hashes; an announced hash that was
\* buffered is retained, taken out of the buffer, and keeps its retries and
\* its fallback peers; an announced hash that was not tracked is retained with
\* a fresh entry of no retries and no fallback peers.  (The step is tried as
\* the intake of each announcement `a` of each peer p with each set `act` of
\* active sessions; the conditions before Intake follow from it and spare its
\* evaluation for the steps that are no such intake.)
C17_IntakeRetains ==
    [][(pc = "idle" /\ ops' # ops /\ inflight_requests' = inflight_requests) =>
        \A a \in Announcements :
          (DOMAIN unknown_hashes' = DOMAIN unknown_hashes \cup Range(a)) =>
            \A p \in Peers, v \in Versions :
              (pc' = "filtered" => (cur'.peer_id = p /\ cur'.version = v)) =>
                \A act \in {x \in SUBSET Peers : p \in x} :
                  Intake(p, v, a, [h \in Range(a) |-> SizeOf(h)], act) =>
                    /\ \A h \in Range(cur'.hashes) :
                           /\ h \in Range(a)
                           /\ h \in DOMAIN unknown_hashes'
                           /\ ~Buffered(h)'
                    /\ \A h \in Range(a) :
                           /\ (h \in DOMAIN unknown_hashes /\ Buffered(h)) =>
                                  /\ Contains(cur'.hashes, h)
                                  /\ ~Buffered(h)'
                                  /\ unknown_hashes'[h] = unknown_hashes[h]
                           /\ h \notin DOMAIN unknown_hashes =>
                                  /\ Contains(cur'.hashes, h)
                                  /\ unknown_hashes'[h] =
                                         [retries |-> 0, peers |-> <<>>]]_vars

\* An intake has retained a hash that was buffered after a failed request,
\* and another that is new.
C17_Witness ==
    /\ pc = "filtered"
    /\ \E h \in Range(cur.hashes) : unknown_hashes[h].retries > 0
    /\ \E h \in Range(cur.hashes) :
           unknown_hashes[h].retries = 0 /\ unknown_hashes[h].peers = <<>>

\* The evictions of a call of buffer_hashes that inserts the hashes
\* `inserted`, in this order, into the buffer `cache`: the pairs
\* <<h_new, h_old>> where the insertion of h_new evicts h_old.
RECURSIVE Evictions(_, _)
Evictions(cache, inserted) ==
    IF inserted = <<>> THEN {}
    ELSE LET r == insert_and_get_evicted(cache, MAX_CAPACITY_BUFFERED_HASHES,
                                         Head(inserted))
         IN  {<<Head(inserted), r.evicted[i]>> : i \in 1 .. Len(r.evicted)}
                 \cup Evictions(r.cache, Tail(inserted))

\* What C18 asks of a step that calls buffer_hashes(hashes, fallback_peer)
\* with `before` the buffer at the call.  The hashes are tracked and no more
\* than the buffer holds; `inserted` are those of them the call inserts (all
\* with a fallback peer, those short of the retry bound without).  For every
\* insertion of a hash h_new that evicts a hash h_old: h_old is absent from
\* the three tables afterwards, and h_new is buffered and tracked.
EvictedAreRemoved(before, hashes, fallback_peer) ==
    LET inserted ==
            SelectSeq(hashes,
                      LAMBDA h : \/ fallback_peer # None
                                 \/ unknown_hashes[h].retries <
                                        MAX_REQUEST_RETRIES_PER_TX_HASH)
    IN  (/\ Len(hashes) <= MAX_CAPACITY_BUFFERED_HASHES
         /\ \A h \in Range(hashes) : h \in DOMAIN unknown_hashes) =>
            \A e \in Evictions(before, inserted) :
                /\ Absent(e[2])'
                /\ Buffered(e[1])'
                /\ e[1] \in DOMAIN unknown_hashes'

\* The hashes of a list that are tracked: what buffer_hashes_for_retry hands
\* to buffer_hashes.
Tracked(hashes) == SelectSeq(hashes, LAMBDA h : h \in DOMAIN unknown_hashes)

\* C18: when buffer_hashes inserts a hash into a full buffer and the least
\* recently used hash is evicted, the evicted hash is absent from
\* unknown_hashes, eth68_meta and buffered_hashes when buffer_hashes returns,
\* and the inserted hash is buffered and still tracked.  Checked for every
\* call: of the surplus of packaging, of the hashes dispatch returns (with the
\* peer as fallback peer or for retry), and of the hashes a completed request
\* leaves over.
C18_EvictedHashRemoved ==
    [][/\ BufferSurplus => EvictedAreRemoved(buffered_hashes, cur.surplus, cur.peer_id)
       /\ BufferWithFallback =>
              EvictedAreRemoved(buffered_hashes, cur.surplus, cur.peer_id)
       /\ BufferForRetry =>
              EvictedAreRemoved(buffered_hashes, Tracked(cur.surplus), None)
       /\ IsPollStep =>
              \A r \in Inflight : \A res \in Results(r) :
                  PollNext(r, res) =>
                      LET fetched == IF res.kind = "ok"
                                     THEN Range(r.requested_hashes) \cap res.hashes
                                     ELSE {}
                      IN  EvictedAreRemoved(
                              SelectSeq(buffered_hashes, LAMBDA h : h \notin fetched),
                              SelectSeq(Tracked(r.requested_hashes),
                                        LAMBDA h : h \notin fetched),
                              None)]_vars

\* Dispatch to the driver's peer gets as far as try_send: neither cap turns
\* the request down.
ReachesTrySend ==
    /\ Cardinality(DOMAIN active_peers) < MAX_CONCURRENT_TX_REQUESTS
    /\ cur.peer_id \in DOMAIN active_peers =>
           active_peers[cur.peer_id] < MAX_CONCURRENT_TX_REQUESTS_PER_PEER

\* C19: when try_send fails in dispatch, with the channel full or closed,
\* request_transactions_from_peer hands back exactly the hashes of the
\* request, in their order and with their version, registers no inflight
\* request, calls the channel-full callback once, and leaves unknown_hashes,
\* buffered_hashes and eth68_meta as they were; full and closed have the same
\* effect.
C19_SendFailureReturnsHashes ==
    [][(IsDispatchStep /\ ReachesTrySend) =>
        \A send \in {"full", "closed"} :
            Dispatch(send) =>
                LET r == request_transactions_from_peer(
                             Self, cur.hashes, cur.version, cur.peer_id, send)
                IN  /\ pc' = "failed"
                    /\ cur'.surplus = cur.hashes
                    /\ cur'.version = cur.version
                    /\ r.some /\ r.hashes = cur.hashes /\ r.version = cur.version
                    /\ r.metric = 1
                    /\ inflight_requests' = inflight_requests
                    /\ unknown_hashes' = unknown_hashes
                    /\ buffered_hashes' = buffered_hashes
                    /\ eth68_meta' = eth68_meta
                    /\ r = request_transactions_from_peer(
                               Self, cur.hashes, cur.version, cur.peer_id, "full")
                    /\ r = request_transactions_from_peer(
                               Self, cur.hashes, cur.version, cur.peer_id, "closed")]_vars

\* The first dispatch of a run has failed to send and handed its hashes back.
C19_Witness ==
    /\ pc = "failed"
    /\ ops = 1
    /\ inflight_requests = EmptyBag
    /\ Len(cur.surplus) > 1
    /\ cur.peer_id \in DOMAIN active_peers

\* The event the stream owes for a request of `peer_id` that resolved with a
\* result of this kind.
EventFor(peer_id, kind) ==
    [kind |-> IF kind = "ok" THEN "TransactionsFetched" ELSE "FetchError",
     peer_id |-> peer_id,
     error |-> IF kind = "ok" THEN "none"
               ELSE IF kind = "err" THEN "RequestError" ELSE "ChannelClosed"]

\* C20: every inflight request that resolves makes the event stream yield
\* exactly one event carrying that request's peer: TransactionsFetched for
\* Ok(transactions), FetchError with the request error when the peer answered
\* with an error, FetchError with ChannelClosed when the response port was
\* dropped; the request leaves inflight_requests with that event, and a poll
\* with no resolved request yields Pending and takes no request.
C20_OneEventPerResolvedRequest ==
    [][/\ IsPollStep =>
            /\ \E r \in Inflight :
                   /\ inflight_requests' = inflight_requests (-) SetToBag({r})
                   /\ event'.peer_id = r.peer_id
                   /\ event'.kind \in {"TransactionsFetched", "FetchError"}
            /\ \A r \in Inflight : \A res \in Results(r) :
                   PollNext(r, res) =>
                       /\ event' = EventFor(r.peer_id, res.kind)
                       /\ inflight_requests' = inflight_requests (-) SetToBag({r})
       /\ PollPending =>
            /\ event' = Pending
            /\ inflight_requests' = inflight_requests]_vars

\* A request whose response port was dropped has resolved: the stream yielded
\* FetchError with ChannelClosed for its peer, and another request is still
\* inflight.
C20_Witness ==
    /\ event.kind = "FetchError"
    /\ event.error = "ChannelClosed"
    /\ event.peer_id \in Peers
    /\ pc = "idle"
    /\ inflight_requests # EmptyBag

\* C21: between public operations every hash in the requested_hashes of an
\* inflight request is a key of unknown_hashes.
C21_InflightHashesTracked ==
    pc = "idle" => InflightHashes \subseteq DOMAIN unknown_hashes

\* C22: in every reachable state every hash with an entry in eth68_meta is a
\* key of unknown_hashes; a hash that leaves unknown_hashes (fetched, retries
\* exhausted, broadcast, evicted from the buffer) has left eth68_meta in the
\* same step.
C22_Eth68MetaSubsetOfUnknown ==
    DOMAIN eth68_meta \subseteq DOMAIN unknown_hashes

\* An eth68 request is inflight; one of its hashes has been removed from
\* unknown_hashes since, another still has its size recorded.
C22_Witness ==
    \E r \in Inflight : \E h, g \in Range(r.requested_hashes) :
        /\ h \notin DOMAIN unknown_hashes
        /\ g \in DOMAIN eth68_meta

\* C23: intake removes from the fallback peers of a hash only peers whose
\* session has ended: a fallback peer with an active session stays, and after
\* intake has processed a known hash (tracked and not buffered) no peer with
\* an ended session is left among its fallback peers.
C23_IntakePrunesOnlyDeadPeers ==
    [][(pc = "idle" /\ ops' # ops) =>
        \A p \in Peers, v \in Versions, a \in Announcements, act \in SUBSET Peers :
            Intake(p, v, a, [h \in Range(a) |-> SizeOf(h)], act) =>
                /\ \A h \in DOMAIN unknown_hashes :
                       \A q \in FallbackPeers(h) \cap act :
                           /\ h \in DOMAIN unknown_hashes'
                           /\ q \in Range(unknown_hashes'[h].peers)
                /\ \A h \in Range(a) :
                       (h \in DOMAIN unknown_hashes /\ ~Buffered(h)) =>
                           Range(unknown_hashes'[h].peers) \subseteq act]_vars

\* C24: at most one request for a hash goes to a peer while the hash keeps
\* its entry in unknown_hashes.  In the run where hash 2 is announced by
\* peer 1, requested from it and not returned (and no step removes its entry:
\* the steps that follow in RetryScenario only raise its retry count), no
\* request containing hash 2 is inflight to peer 1 again for as long as the
\* hash is tracked.
C24_OneRequestPerPeer ==
    \A k \in Len(FetchAnsweredEmpty(1)) + 1 .. Len(RetryScenario) :
        (hist = SubSeq(RetryScenario, 1, k) /\ 2 \in DOMAIN unknown_hashes) =>
            ~ \E r \in Inflight :
                  r.peer_id = 1 /\ Contains(r.requested_hashes, 2)

\* C25: augmentation (FillRequest on a packaged request, RequestBuffered on
\* an empty one) for peer p and a version appends a buffered hash only if p
\* is one of its fallback peers and the hash has the version of the request
\* (an entry in eth68_meta for eth68, none for eth66); an appended hash is
\* afterwards out of the buffer and p out of its fallback peers; the hashes
\* the request had stay at its front; and the buffered hashes not appended
\* stay buffered, in their order, with retries and fallback peers unchanged.
C25_AugmentationTakesFallbackHashes ==
    [][(pc \in {"ready", "idle"} /\ pc' = "filled") =>
        LET p == cur'.peer_id
            appended == Range(cur'.hashes) \ Range(cur.hashes)
        IN  /\ SubSeq(cur'.hashes, 1, Len(cur.hashes)) = cur.hashes
            /\ \A h \in appended :
                   /\ Buffered(h)
                   /\ p \in FallbackPeers(h)
                   /\ (cur'.version = "eth68") <=> (h \in DOMAIN eth68_meta)
                   /\ ~Buffered(h)'
                   /\ h \in DOMAIN unknown_hashes'
                   /\ p \notin Range(unknown_hashes'[h].peers)
            /\ \A h \in Range(buffered_hashes) \ appended :
                   /\ Buffered(h)'
                   /\ unknown_hashes'[h] = unknown_hashes[h]
            /\ buffered_hashes' =
                   SelectSeq(buffered_hashes, LAMBDA h : h \notin appended)]_vars

\* A request for a newly announced hash has been augmented with a buffered
\* hash (the announced hashes are in ascending order, the appended one is
\* smaller than its predecessor), and another hash has stayed in the buffer.
C25_Witness ==
    /\ pc = "filled"
    /\ \E i \in 1 .. Len(cur.hashes) - 1 : cur.hashes[i] > cur.hashes[i + 1]
    /\ buffered_hashes # <<>>

\* C26: when a request completes, every requested hash the peer did not
\* return (all of them after a request error or a closed channel) that is
\* still tracked, with fewer than MAX_REQUEST_RETRIES_PER_TX_HASH retries, has
\* its retries raised by exactly one, keeps its fallback peers and is buffered
\* afterwards; no returned hash is buffered.  The request holds no more hashes
\* than the buffer, as it does with the program's limits.
C26_CompletionBuffersLeftover ==
    [][IsPollStep =>
        \A r \in Inflight : \A res \in Results(r) :
            (/\ PollNext(r, res)
             /\ Len(r.requested_hashes) <= MAX_CAPACITY_BUFFERED_HASHES) =>
                LET returned == IF res.kind = "ok"
                                THEN Range(r.requested_hashes) \cap res.hashes
                                ELSE {}
                IN  /\ \A h \in Range(r.requested_hashes) \ returned :
                           (/\ h \in DOMAIN unknown_hashes
                            /\ unknown_hashes[h].retries <
                                   MAX_REQUEST_RETRIES_PER_TX_HASH) =>
                               /\ h \in DOMAIN unknown_hashes'
                               /\ unknown_hashes'[h].retries =
                                      unknown_hashes[h].retries + 1
                               /\ unknown_hashes'[h].peers = unknown_hashes[h].peers
                               /\ Buffered(h)'
                    /\ \A h \in returned : ~Buffered(h)']_vars

\* C27: between public operations, the driver having re-buffered every
\* surplus of packaging and dispatch, every key of unknown_hashes is buffered
\* or requested by an inflight request.
C27_TrackedIsBufferedOrInflight ==
    pc = "idle" =>
        \A h \in DOMAIN unknown_hashes : Buffered(h) \/ h \in InflightHashes

\* After one announcement the driver is idle again: a hash of the request is
\* inflight and not buffered, and a surplus hash of packaging is buffered,
\* with the announcing peer as fallback peer, and not inflight.
C27_Witness ==
    /\ pc = "idle"
    /\ ops = 1
    /\ \E g \in InflightHashes : g \in DOMAIN unknown_hashes /\ ~Buffered(g)
    /\ \E h \in DOMAIN unknown_hashes :
           /\ Buffered(h)
           /\ h \notin InflightHashes
           /\ unknown_hashes[h].peers # <<>>

\* C28: get_idle_peer_for(h, buf, session_is_active) returns the first peer,
\* in the order of the fallback peers of h, that is idle (not in active_peers,
\* or with a count below MAX_CONCURRENT_TX_REQUESTS_PER_PEER) and whose
\* session is active; it returns None when h is not tracked or there is no
\* such peer; every peer it appends to buf is a fallback peer of h whose
\* session has ended; and no table of the fetcher changes.
C28_GetIdlePeerFor ==
    [][\A h \in 1 .. MaxIdleHashes, active \in SUBSET Peers :
        GetIdlePeer(h, active) =>
            LET r == get_idle_peer_for(Self, h, <<>>, active)
                peers == IF h \in DOMAIN unknown_hashes
                         THEN unknown_hashes[h].peers ELSE <<>>
                Idle(p) == \/ p \notin DOMAIN active_peers
                           \/ active_peers[p] < MAX_CONCURRENT_TX_REQUESTS_PER_PEER
                eligible == {i \in 1 .. Len(peers) :
                                Idle(peers[i]) /\ peers[i] \in active}
            IN  /\ eligible # {} =>
                       \E i \in eligible :
                           /\ \A j \in eligible : i <= j
                           /\ r.peer = peers[i]
                /\ eligible = {} => r.peer = None
                /\ h \notin DOMAIN unknown_hashes => r.peer = None
                /\ Range(r.ended_sessions_buf) \subseteq Range(peers) \ active
                /\ cur'.peer_id = r.peer
                /\ Self' = Self]_vars

\* The lookup has passed over a busy first fallback peer and found the
\* second.
C28_Witness ==
    /\ pc = "found"
    /\ LET peers == unknown_hashes[cur.hashes[1]].peers
       IN  /\ Len(peers) >= 2
           /\ cur.peer_id = peers[2]
           /\ peers[1] \in DOMAIN active_peers

\* C29: when every registered inflight request eventually resolves and is
\* polled, a peer that has entered active_peers through a dispatch, whatever
\* the outcome of the dispatch (accepted, channel full, channel closed),
\* eventually is idle again.
C29_PeerBecomesIdleAgain ==
    \A p \in Peers : (p \in DOMAIN active_peers) ~> is_idle(Self, p)

====
